---- MODULE Spec2Model ----
(***************************************************************************)
(* A model of td_parser/parser.py: the value parsers, the balance          *)
(* validator, the balance-summary and transaction extractors and           *)
(* TDStatementParser.parse.                                                *)
(*                                                                         *)
(* Text.  A Python str is modelled as a sequence of atoms.  An atom is     *)
(* either one character ("$", "7", ".", "C", ...) or one whole word that   *)
(* the code only ever tests as a unit ("Previous", "Balance", "Jul",       *)
(* "Transactions", ...).  `a in b` is contiguous-subsequence containment,  *)
(* "".join is concatenation.  A word (PositionedToken) is a record         *)
(* [text, x0, top]; a row is a sequence of words sorted by x0, as          *)
(* _words_by_row returns it.                                               *)
(*                                                                         *)
(* Decimal.  A Decimal is [kind |-> "Decimal", coef, scale], standing for  *)
(* coef * 10^(-scale); arithmetic and comparison are exact, as Python's    *)
(* are for every value of fewer than 28 digits.                            *)
(***************************************************************************)
EXTENDS Integers, Sequences, FiniteSets, TLC

VARIABLES
    raw, amount_out,                 \* _parse_amount: argument, outcome
    summary, validate_out,           \* _validate_balance: argument, outcome
    sum_row, values, summary_out,    \* _extract_balance_summary: row, values, outcome
    label_seen,                      \* history: keys whose label an earlier row held
    year, billing_end_month,         \* _extract_transactions: arguments
    page, txn_row,                   \*   page number, row of the loop
    in_transactions, transactions,   \*   locals
    txn_out,                         \*   outcome
    amended,                         \* history: times transactions[i] was replaced
    pdf_pages, parse_out             \* TDStatementParser.parse: pages, outcome

vars == <<raw, amount_out, summary, validate_out,
          sum_row, values, summary_out, label_seen,
          year, billing_end_month, page, txn_row,
          in_transactions, transactions, txn_out, amended,
          pdf_pages, parse_out>>

Pending == [kind |-> "pending"]

-----------------------------------------------------------------------------
(* Bounds of the model *)

MaxTokLen == 3
MaxCoef == 1
MaxRowCur == 2
MaxPages == 2
MaxTxns == 2
MaxAmend == 2

-----------------------------------------------------------------------------
(* str helpers *)

RECURSIVE Concat(_)
Concat(ss) == IF ss = <<>> THEN <<>> ELSE Head(ss) \o Concat(Tail(ss))

\* sub in s
Contains(s, sub) ==
    \E i \in 0..(Len(s) - Len(sub)) :
        \A j \in 1..Len(sub) : s[i + j] = sub[j]

\* str.upper(): only the lower-case letters of the alphabet change
UpperAtom(c) == CASE c = "r" -> "R" [] c = "c" -> "C" [] OTHER -> c
Upper(s) == [i \in 1..Len(s) |-> UpperAtom(s[i])]

StartsWith(s, prefix) ==
    Len(s) >= Len(prefix) /\ \A j \in 1..Len(prefix) : s[j] = prefix[j]

Digits == {"0", "1", "2", "3", "4", "5", "6", "7", "8", "9"}
DigitVal(c) ==
    CASE c = "0" -> 0 [] c = "1" -> 1 [] c = "2" -> 2 [] c = "3" -> 3
      [] c = "4" -> 4 [] c = "5" -> 5 [] c = "6" -> 6 [] c = "7" -> 7
      [] c = "8" -> 8 [] c = "9" -> 9

RECURSIVE DigitsToNat(_)
DigitsToNat(s) ==
    IF s = <<>> THEN 0
    ELSE 10 * DigitsToNat(SubSeq(s, 1, Len(s) - 1)) + DigitVal(s[Len(s)])

RECURSIVE Pow10(_)
Pow10(n) == IF n = 0 THEN 1 ELSE 10 * Pow10(n - 1)

-----------------------------------------------------------------------------
(* decimal.Decimal *)

Dec(c, s) == [kind |-> "Decimal", coef |-> c, scale |-> s]
DecMax(a, b) == IF a >= b THEN a ELSE b
DecAlign(a, s) == a.coef * Pow10(s - a.scale)
DecAdd(a, b) ==
    LET s == DecMax(a.scale, b.scale) IN Dec(DecAlign(a, s) + DecAlign(b, s), s)
DecNeg(a) == Dec(-a.coef, a.scale)
DecSub(a, b) == DecAdd(a, DecNeg(b))
DecAbs(a) == Dec(IF a.coef < 0 THEN -a.coef ELSE a.coef, a.scale)
\* Decimal.__eq__ compares numerically: Decimal("0") == Decimal("0.00")
DecEq(a, b) ==
    LET s == DecMax(a.scale, b.scale) IN DecAlign(a, s) = DecAlign(b, s)

\* Decimal(str) on a cleaned string: digits with at most one point and at
\* least one digit.  InvalidOperation otherwise.
IsNumeral(s) ==
    /\ \A i \in 1..Len(s) : s[i] \in Digits \cup {"."}
    /\ Cardinality({i \in 1..Len(s) : s[i] = "."}) <= 1
    /\ \E i \in 1..Len(s) : s[i] \in Digits

DecimalOf(s) ==
    LET dots == {i \in 1..Len(s) : s[i] = "."}
        dot  == IF dots = {} THEN Len(s) + 1 ELSE CHOOSE i \in dots : TRUE
        digs == SelectSeq(s, LAMBDA c : c \in Digits)
    IN  Dec(DigitsToNat(digs), IF dots = {} THEN 0 ELSE Len(s) - dot)

-----------------------------------------------------------------------------
(* _parse_amount *)

\* re.sub(r"[+\-$,CR\s]", "", raw.upper())
StripClass == {"+", "-", "$", ",", "C", "R", " "}
Cleaned(s) == SelectSeq(Upper(s), LAMBDA c : c \notin StripClass)

IsCredit(s) == Contains(Upper(s), <<"C", "R">>)

DataIntegrityError == [kind |-> "DataIntegrityError"]

_parse_amount(s) ==
    LET is_credit == IsCredit(s)
        cleaned   == Cleaned(s)
    IN  IF ~IsNumeral(cleaned) THEN DataIntegrityError
        ELSE IF is_credit THEN DecNeg(DecimalOf(cleaned))
        ELSE DecimalOf(cleaned)

-----------------------------------------------------------------------------
(* _validate_balance *)

BalanceMismatchError == [kind |-> "BalanceMismatchError"]
ReturnsNone == [kind |-> "None"]

Calculated(s) ==
    DecAdd(DecAdd(DecSub(DecAdd(s.previous_balance, s.purchases), s.credits),
                  s.fees), s.interest)

\* faulty variant: a tolerance of one cent
_validate_balance_tolerant(s) ==
    LET d == DecSub(Calculated(s), s.new_balance)
    IN  IF DecAlign(DecAbs(d), DecMax(d.scale, 2)) > Pow10(DecMax(d.scale, 2) - 2)
        THEN BalanceMismatchError ELSE ReturnsNone

_validate_balance(s) ==
    IF ~DecEq(Calculated(s), s.new_balance) THEN BalanceMismatchError
    ELSE ReturnsNone

-----------------------------------------------------------------------------
(* Words and rows *)

Word(t, x, y) == [text |-> t, x0 |-> x, top |-> y]

\* "".join(w["text"] for w in row)
Joined(row) == Concat([i \in 1..Len(row) |-> row[i].text])

\* a row of the given texts, left to right, from x0 = x on, at height y
RowAt(texts, x, y) == [i \in 1..Len(texts) |-> Word(texts[i], x + 50 * (i - 1), y)]
RowOf(texts) == RowAt(texts, 50, 100)

\* _RE_CURRENCY.search(text): \$[\d,]+\.\d{2}(?:CR)?
RE_CURRENCY_search(t) ==
    \E i \in 1..Len(t) : \E j \in (i + 1)..Len(t) :
        /\ t[i] = "$"
        /\ \A k \in (i + 1)..j : t[k] \in Digits \cup {","}
        /\ j + 3 <= Len(t)
        /\ t[j + 1] = "."
        /\ t[j + 2] \in Digits
        /\ t[j + 3] \in Digits

-----------------------------------------------------------------------------
(* _extract_balance_summary *)

label_map ==
    << [label |-> <<"Previous", "Balance">>,       key |-> "previous_balance"],
       [label |-> <<"Purchases">>,                 key |-> "purchases"],
       [label |-> <<"Other", "Credits">>,          key |-> "credits"],
       [label |-> <<"Fees", "Charged">>,           key |-> "fees"],
       [label |-> <<"Interest", "Charged">>,       key |-> "interest"],
       [label |-> <<"New", "Balance">>,            key |-> "new_balance"],
       [label |-> <<"Available">>,                 key |-> "available_credit"],
       [label |-> <<"Minimum", "Payment", "Due">>, key |-> "minimum_payment"] >>

Keys == {label_map[i].key : i \in 1..Len(label_map)}

\* next((w["x0"] for w in row if label in w["text"]), 0)
LabelX(row, label) ==
    LET holders == {i \in 1..Len(row) : Contains(row[i].text, label)}
    IN  IF holders = {} THEN 0
        ELSE row[CHOOSE i \in holders : \A j \in holders : i <= j].x0

Candidates(row, label) ==
    LET label_x == LabelX(row, label)
    IN  {i \in 1..Len(row) :
            row[i].x0 > label_x /\ RE_CURRENCY_search(row[i].text)}

\* faulty variant: the rightmost candidate
BestRightmost(row, cands) ==
    CHOOSE i \in cands : \A j \in cands : row[j].x0 <= row[i].x0

\* min(candidates, key=x0): the first of the words of least x0
Best(row, cands) ==
    CHOOSE i \in cands :
        \A j \in cands : row[i].x0 < row[j].x0 \/ (row[i].x0 = row[j].x0 /\ i <= j)

FieldAmount(t) ==
    LET amount == _parse_amount(t)
    IN  IF amount = DataIntegrityError THEN amount
        ELSE IF StartsWith(t, <<"-">>) THEN DecNeg(DecAbs(amount))
        ELSE amount

\* What lines 113-130 find in a row for entry i of label_map: whether the
\* label is in the row's text, and the amount of the best candidate
\* (Pending when there is no candidate, DataIntegrityError when
\* _parse_amount raises).
LabelFacts(row, joined, i) ==
    LET label == label_map[i].label
        cands == Candidates(row, label)
    IN  [has |-> Contains(joined, label),
         amt |-> IF cands = {} THEN Pending
                 ELSE FieldAmount(row[Best(row, cands)].text)]

RowFacts(row) ==
    LET joined == Joined(row)
    IN  [i \in 1..Len(label_map) |-> LabelFacts(row, joined, i)]

\* the body of `for label, key in label_map.items()` from entry i on, for a
\* row with the given facts; raised is set when _parse_amount raises
RECURSIVE ScanLabels(_, _, _)
ScanLabels(vals, facts, i) ==
    IF i > Len(label_map) THEN [values |-> vals, raised |-> FALSE]
    ELSE
      LET key == label_map[i].key
      IN  IF key \in DOMAIN vals THEN ScanLabels(vals, facts, i + 1)
          ELSE IF ~facts[i].has THEN ScanLabels(vals, facts, i + 1)
          ELSE IF facts[i].amt = Pending THEN ScanLabels(vals, facts, i + 1)
          ELSE IF facts[i].amt = DataIntegrityError
               THEN [values |-> vals, raised |-> TRUE]
          ELSE ScanLabels((key :> facts[i].amt) @@ vals, facts, i + 1)

BalanceSummary(vals) ==
    [kind |-> "BalanceSummary",
     previous_balance |-> vals["previous_balance"],
     purchases        |-> vals["purchases"],
     credits          |-> vals["credits"],
     fees             |-> vals["fees"],
     interest         |-> vals["interest"],
     new_balance      |-> vals["new_balance"],
     available_credit |-> vals["available_credit"],
     minimum_payment  |-> vals["minimum_payment"]]

\* lines 133-137
SummaryResult(vals) ==
    IF Keys \ DOMAIN vals # {} THEN DataIntegrityError ELSE BalanceSummary(vals)

NoValues == [k \in {} |-> Pending]

-----------------------------------------------------------------------------
(* _parse_date *)

ValueError == [kind |-> "ValueError"]

MonthAbbr ==
    <<"Jan", "Feb", "Mar", "Apr", "May", "Jun",
      "Jul", "Aug", "Sep", "Oct", "Nov", "Dec">>

MonthNumber(a) == CHOOSE m \in 1..12 : MonthAbbr[m] = a

IsLeap(y) == (y % 4 = 0 /\ y % 100 # 0) \/ y % 400 = 0

DaysIn(m, y) ==
    IF m = 2 THEN (IF IsLeap(y) THEN 29 ELSE 28)
    ELSE IF m \in {4, 6, 9, 11} THEN 30 ELSE 31

Date(y, m, d) == [kind |-> "date", year |-> y, month |-> m, day |-> d]

\* _RE_TXN_DATE.match(text): a month abbreviation and exactly two digits
RE_TXN_DATE_match(t) ==
    /\ Len(t) = 3
    /\ \E m \in 1..12 : MonthAbbr[m] = t[1]
    /\ t[2] \in Digits
    /\ t[3] \in Digits

\* datetime.strptime(f"{raw} {year}", "%b %d %Y").date(), after the space is
\* inserted behind the month: %d takes one or two digits, not "0" or "00"
_parse_date(t, y) ==
    IF /\ Len(t) \in {2, 3}
       /\ \E m \in 1..12 : MonthAbbr[m] = t[1]
       /\ \A i \in 2..Len(t) : t[i] \in Digits
    THEN LET m == MonthNumber(t[1])
             d == DigitsToNat(SubSeq(t, 2, Len(t)))
         IN  IF d >= 1 /\ d <= DaysIn(m, y) THEN Date(y, m, d) ELSE ValueError
    ELSE ValueError

-----------------------------------------------------------------------------
(* _extract_transactions *)

_COL_ACTIVITY == <<70, 115>>
_COL_POST     == <<125, 165>>
_COL_REF      == <<185, 230>>
_COL_DESC     == <<255, 510>>
_COL_AMOUNT   == <<515, 580>>

_in_col(word, col) == col[1] <= word.x0 /\ word.x0 <= col[2]

InCol(row, col) == SelectSeq(row, LAMBDA w : _in_col(w, col))

\* str.strip()
RECURSIVE LStrip(_)
LStrip(s) == IF s # <<>> /\ Head(s) = " " THEN LStrip(Tail(s)) ELSE s
RECURSIVE RStrip(_)
RStrip(s) ==
    IF s # <<>> /\ s[Len(s)] = " " THEN RStrip(SubSeq(s, 1, Len(s) - 1)) ELSE s
Strip(s) == RStrip(LStrip(s))

\* " ".join(w["text"] for w in words)
RECURSIVE JoinSpace(_)
JoinSpace(words) ==
    IF words = <<>> THEN <<>>
    ELSE IF Len(words) = 1 THEN words[1].text
    ELSE words[1].text \o <<" ">> \o JoinSpace(Tail(words))

stop_labels ==
    { <<"Fees">>, <<"TOTAL", "FEES", "FOR", "THIS", "PERIOD">>, <<"Total", "Fees">> }

\* faulty variant: a row that merely contains "Transactions" opens the section
IsSectionTitleSubstring(joined) == Contains(joined, <<"Transactions">>)

\* line 163
IsSectionTitle(joined) == Strip(joined) = <<"Transactions">>

\* line 168
IsSectionEnd(joined) == \E s \in stop_labels : Contains(joined, s)

\* line 172
IsSkipped(joined) ==
    \/ Contains(joined, <<"Activity", "Date">>)
    \/ Contains(joined, <<"Card", "Number", "Ending">>)

\* line 175
DateWords(row) ==
    SelectSeq(row, LAMBDA w : _in_col(w, _COL_ACTIVITY) /\ RE_TXN_DATE_match(w.text))

\* what the loop body reads of a row
TxnRowFacts(row) ==
    LET joined == Joined(row)
    IN  [title      |-> IsSectionTitle(joined),
         section_end |-> IsSectionEnd(joined),
         skipped    |-> IsSkipped(joined),
         date_words |-> DateWords(row),
         post_words |-> InCol(row, _COL_POST),
         ref_words  |-> InCol(row, _COL_REF),
         desc_words |-> InCol(row, _COL_DESC),
         amt_words  |-> InCol(row, _COL_AMOUNT)]

Transaction(ad, pd, ref, desc, amt) ==
    [activity_date |-> ad, post_date |-> pd, reference_number |-> ref,
     description |-> desc, amount |-> amt]

\* faulty variant: the continuation text is appended without the space
AmendLastNoSpace(txns, extra) ==
    LET last == txns[Len(txns)]
    IN  [txns EXCEPT ![Len(txns)] =
            Transaction(last.activity_date, last.post_date, last.reference_number,
                        last.description \o extra, last.amount)]

\* faulty variant: transactions[0] is replaced instead of transactions[-1]
AmendFirst(txns, extra) ==
    LET first == txns[1]
    IN  [txns EXCEPT ![1] =
            Transaction(first.activity_date, first.post_date,
                        first.reference_number,
                        first.description \o <<" ">> \o extra, first.amount)]

\* lines 181-189: the last transaction replaced by a copy with the longer
\* description
AmendLast(txns, extra) ==
    LET last == txns[Len(txns)]
    IN  [txns EXCEPT ![Len(txns)] =
            Transaction(last.activity_date, last.post_date, last.reference_number,
                        last.description \o <<" ">> \o extra, last.amount)]

\* line 197
RowComplete(f) == f.post_words # <<>> /\ f.ref_words # <<>> /\ f.amt_words # <<>>

\* line 202: one year for the row, from the activity token
TxnYear(act_raw, yr, bem) ==
    IF act_raw[1] = "Jan" /\ bem = 12 THEN yr + 1 ELSE yr

Step(in_tx, txns, how) ==
    [in_transactions |-> in_tx, transactions |-> txns, out |-> how]

\* faulty variant: the new transaction is put in front
InsertTransactionFirst(txns, f, yr, bem) ==
    LET act_raw  == f.date_words[1].text
        txn_year == TxnYear(act_raw, yr, bem)
        ad       == _parse_date(act_raw, txn_year)
        pd       == _parse_date(f.post_words[1].text, txn_year)
        amt      == _parse_amount(f.amt_words[1].text)
    IN  IF ad = ValueError \/ pd = ValueError THEN Step(TRUE, txns, "ValueError")
        ELSE IF amt = DataIntegrityError THEN Step(TRUE, txns, "DataIntegrityError")
        ELSE Step(TRUE,
                  <<Transaction(ad, pd, f.ref_words[1].text,
                                JoinSpace(f.desc_words), amt)>> \o txns,
                  "continue")

\* lines 204-210; the arguments are evaluated in order, so a date that
\* does not parse raises before the amount is looked at
AppendTransaction(txns, f, yr, bem) ==
    LET act_raw  == f.date_words[1].text
        txn_year == TxnYear(act_raw, yr, bem)
        ad       == _parse_date(act_raw, txn_year)
        pd       == _parse_date(f.post_words[1].text, txn_year)
        amt      == _parse_amount(f.amt_words[1].text)
    IN  IF ad = ValueError \/ pd = ValueError THEN Step(TRUE, txns, "ValueError")
        ELSE IF amt = DataIntegrityError THEN Step(TRUE, txns, "DataIntegrityError")
        ELSE Step(TRUE,
                  Append(txns, Transaction(ad, pd, f.ref_words[1].text,
                                           JoinSpace(f.desc_words), amt)),
                  "continue")

\* lines 159-210: the loop body for one row.  out is "continue" (next row),
\* "return" (line 169) or the exception raised.
ScanTxnRow(in_tx, txns, f, yr, bem) ==
    IF ~in_tx THEN Step(f.title, txns, "continue")
    ELSE IF f.section_end THEN Step(TRUE, txns, "return")
    ELSE IF f.skipped THEN Step(TRUE, txns, "continue")
    ELSE IF f.date_words = <<>>
         THEN IF f.desc_words # <<>> /\ txns # <<>>
              THEN Step(TRUE, AmendLast(txns, JoinSpace(f.desc_words)), "continue")
              ELSE Step(TRUE, txns, "continue")
    ELSE IF ~RowComplete(f) THEN Step(TRUE, txns, "continue")
    ELSE AppendTransaction(txns, f, yr, bem)

-----------------------------------------------------------------------------
(* _extract_header, _parse_billing_period, _extract_points *)

KeyError == [kind |-> "KeyError"]

Punctuation == {",", "-", " ", ":", "$", ".", "/", "#", "+"}

\* \w: a letter, a digit or "_"
IsWordAtom(a) == a \notin Punctuation

AllDigits(s, i, j) == \A k \in i..j : k <= Len(s) /\ s[k] \in Digits

\* \w+\d+,\d{4} ending at the comma s[c], the match starting at g
IsDateGroup(s, g, c) ==
    /\ g < c - 1
    /\ c <= Len(s) /\ s[c] = ","
    /\ \A k \in g..(c - 1) : IsWordAtom(s[k])
    /\ s[c - 1] \in Digits
    /\ AllDigits(s, c + 1, c + 4)

\* re.search(r"(\w+\d+,\d{4})-(\w+\d+,\d{4})", s): the set of <<g1, c1, c2>>
\* at which the pattern matches with the first group starting at g1
BillingMatches(s) ==
    {m \in (1..Len(s)) \X {c \in 1..Len(s) : s[c] = ","}
                \X {c \in 1..Len(s) : s[c] = ","} :
        /\ IsDateGroup(s, m[1], m[2])
        /\ m[2] + 5 <= Len(s) /\ s[m[2] + 5] = "-"
        /\ IsDateGroup(s, m[2] + 6, m[3])}

\* the leftmost match: its two groups
BillingGroups(s) ==
    LET ms == BillingMatches(s)
        m  == CHOOSE m \in ms : \A o \in ms : m[1] <= o[1]
    IN  << SubSeq(s, m[1], m[2] + 4), SubSeq(s, m[2] + 6, m[3] + 4) >>

AccountLabel == <<"Account", "Number", "Ending", "in", ":">>

\* the test lines 67-82 make of a row for the key k
HeaderTest(k, row) ==
    LET joined  == Joined(row)
        top     == row[1].top
        x0      == row[1].x0
        cleaned == SelectSeq(joined, LAMBDA a : a # " ")
        n       == Len(joined)
    IN  CASE k = "cardholder" -> x0 > 400 /\ top < 35
          [] k = "entity"     -> x0 > 400 /\ 35 < top /\ top < 50
          [] k = "suffix"     -> /\ Contains(joined, AccountLabel)
                                 /\ n >= 4 /\ AllDigits(joined, n - 3, n)
          [] k = "billing"    -> top < 70 /\ BillingMatches(cleaned) # {}

\* the value lines 67-82 store under the key k from a row passing the test
HeaderField(k, row) ==
    LET joined == Joined(row)
        n      == Len(joined)
    IN  CASE k = "cardholder" -> row[1].text
          [] k = "entity"     -> row[1].text
          [] k = "suffix"     -> SubSeq(joined, n - 3, n)
          [] k = "billing"    -> BillingGroups(SelectSeq(joined, LAMBDA a : a # " "))

\* `if not result.get(k) and ...` in a loop over the rows: each key is set
\* by the first row passing its test (a word's text is never empty, so a
\* key once set stays), and is absent when no row passes
_extract_header(rows) ==
    LET passing(k) == {i \in 1..Len(rows) : HeaderTest(k, rows[i])}
        first(k)   == CHOOSE i \in passing(k) : \A j \in passing(k) : i <= j
        keys       == {k \in {"cardholder", "entity", "suffix", "billing"} :
                          passing(k) # {}}
    IN  [k \in keys |-> HeaderField(k, rows[first(k)])]

MonthName ==
    <<"January", "February", "March", "April", "May", "June", "July",
      "August", "September", "October", "November", "December">>

\* datetime.strptime(s, "%B%d,%Y").date()
ParseLongDate(s) ==
    LET commas == {i \in 1..Len(s) : s[i] = ","}
        c == CHOOSE i \in commas : TRUE
    IN  IF /\ Cardinality(commas) = 1
           /\ c \in {3, 4}
           /\ Len(s) = c + 4
           /\ \E m \in 1..12 : MonthName[m] = s[1]
           /\ AllDigits(s, 2, c - 1)
           /\ AllDigits(s, c + 1, c + 4)
        THEN LET m == CHOOSE m \in 1..12 : MonthName[m] = s[1]
                 d == DigitsToNat(SubSeq(s, 2, c - 1))
                 y == DigitsToNat(SubSeq(s, c + 1, c + 4))
             IN  IF d >= 1 /\ d <= DaysIn(m, y) /\ y >= 1
                 THEN Date(y, m, d) ELSE ValueError
        ELSE ValueError

_parse_billing_period(start_str, end_str) ==
    LET start == ParseLongDate(start_str)
        end   == ParseLongDate(end_str)
    IN  IF start = ValueError \/ end = ValueError THEN ValueError
        ELSE [kind |-> "tuple", value |-> <<start, end>>]

PointsLabel == <<"New", "Points", "Balance">>

\* int(text.replace(",", "")) succeeds: an optional sign and digits
IsInt(t) ==
    LET u == SelectSeq(t, LAMBDA a : a # ",")
        v == IF u # <<>> /\ Head(u) \in {"+", "-"} THEN Tail(u) ELSE u
    IN  v # <<>> /\ \A i \in 1..Len(v) : v[i] \in Digits

IntOf(t) ==
    LET u == SelectSeq(t, LAMBDA a : a # ",")
    IN  IF Head(u) = "-" THEN -DigitsToNat(Tail(u))
        ELSE IF Head(u) = "+" THEN DigitsToNat(Tail(u))
        ELSE DigitsToNat(u)

\* the first row holding the label and a word int() accepts gives the last
\* such word's value; a row holding the label and no such word is passed over
_extract_points(rows) ==
    LET ints(row) == {i \in 1..Len(row) : IsInt(row[i].text)}
        hits == {r \in 1..Len(rows) :
                    Contains(Joined(rows[r]), PointsLabel) /\ ints(rows[r]) # {}}
    IN  IF hits = {} THEN DataIntegrityError
        ELSE LET row == rows[CHOOSE r \in hits : \A q \in hits : r <= q]
                 w   == CHOOSE i \in ints(row) : \A j \in ints(row) : j <= i
             IN  [kind |-> "int", value |-> IntOf(row[w].text)]

-----------------------------------------------------------------------------
(* _extract_balance_summary and _extract_transactions as functions *)

RECURSIVE SummaryFrom(_, _)
SummaryFrom(vals, rows) ==
    IF rows = <<>> THEN SummaryResult(vals)
    ELSE LET res == ScanLabels(vals, RowFacts(Head(rows)), 1)
         IN  IF res.raised THEN DataIntegrityError
             ELSE SummaryFrom(res.values, Tail(rows))

_extract_balance_summary(rows) == SummaryFrom(NoValues, rows)

RECURSIVE TransactionsFrom(_, _, _, _, _)
TransactionsFrom(in_tx, txns, rows, yr, bem) ==
    IF rows = <<>> THEN [kind |-> "list", value |-> txns]
    ELSE LET res == ScanTxnRow(in_tx, txns, TxnRowFacts(Head(rows)), yr, bem)
         IN  IF res.out = "continue"
             THEN TransactionsFrom(res.in_transactions, res.transactions,
                                   Tail(rows), yr, bem)
             ELSE IF res.out = "return"
             THEN [kind |-> "list", value |-> res.transactions]
             ELSE [kind |-> res.out]

\* pages: the rows of each page, as _words_by_row gives them
_extract_transactions(pages, yr, bem) ==
    TransactionsFrom(FALSE, <<>>, Concat(pages), yr, bem)

-----------------------------------------------------------------------------
(* TDStatementParser.parse *)

Get(d, k, default) == IF k \in DOMAIN d THEN d[k] ELSE default

Statement(header, period, balance, points, txns) ==
    [kind |-> "Statement",
     entity_name          |-> Get(header, "entity", <<>>),
     primary_cardholder   |-> Get(header, "cardholder", <<>>),
     account_suffix       |-> Get(header, "suffix", <<>>),
     billing_period_start |-> period.value[1],
     billing_period_end   |-> period.value[2],
     balance_summary      |-> balance,
     current_points       |-> points.value,
     transactions         |-> txns]

\* faulty variant: the Statement is returned without the validation of line 245
ReturnUnvalidated(header, period, balance, points, txns) ==
    Statement(header, period, balance, points, txns)

\* lines 245-256
ValidateAndReturn(header, period, balance, points, txns) ==
    IF _validate_balance(balance) = BalanceMismatchError
    THEN BalanceMismatchError
    ELSE Statement(header, period, balance, points, txns)

\* lines 238-256
ResolvePeriodAndScan(pages, header, balance, points) ==
    IF "billing" \notin DOMAIN header THEN KeyError
    ELSE LET period == _parse_billing_period(header["billing"][1],
                                             header["billing"][2])
         IN  IF period = ValueError THEN ValueError
             ELSE LET txns == _extract_transactions(pages, period.value[2].year,
                                                    period.value[2].month)
                  IN  IF txns.kind # "list" THEN txns
                      ELSE ValidateAndReturn(header, period, balance, points,
                                             txns.value)

\* the Statement returned, or the exception raised
parse(pages) ==
    LET page1_rows == pages[1]
        header     == _extract_header(page1_rows)
        balance    == _extract_balance_summary(page1_rows)
        points     == _extract_points(page1_rows)
    IN  IF balance = DataIntegrityError THEN DataIntegrityError
        ELSE IF points = DataIntegrityError THEN DataIntegrityError
        ELSE ResolvePeriodAndScan(pages, header, balance, points)

-----------------------------------------------------------------------------
(* Specification of _parse_amount over every token of the alphabet *)

AmountChars == {"7", "0", ".", "$", ",", "-", "+", " ", "C", "R", "r", "x"}
Tokens == UNION {[1..n -> AmountChars] : n \in 0..MaxTokLen}

AmountIdle == raw = <<>> /\ amount_out = Pending
ValidateIdle == summary = Pending /\ validate_out = Pending
SummaryIdle ==
    sum_row = <<>> /\ values = NoValues /\ summary_out = Pending /\ label_seen = {}

TxnIdle ==
    /\ year = 0 /\ billing_end_month = 0 /\ page = 0 /\ txn_row = <<>>
    /\ in_transactions = FALSE /\ transactions = <<>> /\ txn_out = Pending
    /\ amended = <<>>

ParseIdle == pdf_pages = <<>> /\ parse_out = Pending

parseVars == <<pdf_pages, parse_out>>
txnVars == <<year, billing_end_month, page, txn_row,
             in_transactions, transactions, txn_out, amended>>
amountVars == <<raw, amount_out>>
validateVars == <<summary, validate_out>>
summaryVars == <<sum_row, values, summary_out, label_seen>>

InitAmount ==
    /\ raw \in Tokens
    /\ amount_out = Pending
    /\ ValidateIdle /\ SummaryIdle /\ TxnIdle /\ ParseIdle

ParseAmount ==
    /\ amount_out = Pending
    /\ amount_out' = _parse_amount(raw)
    /\ UNCHANGED <<raw, validateVars, summaryVars, txnVars, parseVars>>

SpecAmount == InitAmount /\ [][ParseAmount]_vars

-----------------------------------------------------------------------------
(* Specification of _validate_balance over every small BalanceSummary *)

Cents == {Dec(c, 2) : c \in (-MaxCoef)..MaxCoef}
\* Decimal("1") and Decimal("1.00") are different objects of equal value
Units == {Dec(c, 0) : c \in (-MaxCoef)..MaxCoef}

Summaries ==
    [previous_balance : Cents \cup Units, purchases : Cents, credits : Cents,
     fees : Cents, interest : Cents, new_balance : Cents \cup Units,
     available_credit : {Dec(0, 2)}, minimum_payment : {Dec(0, 2)}]

InitValidate ==
    /\ summary \in Summaries
    /\ validate_out = Pending
    /\ AmountIdle /\ SummaryIdle /\ TxnIdle /\ ParseIdle

ValidateBalance ==
    /\ validate_out = Pending
    /\ validate_out' = _validate_balance(summary)
    /\ UNCHANGED <<summary, amountVars, summaryVars, txnVars, parseVars>>

SpecValidate == InitValidate /\ [][ValidateBalance]_vars

-----------------------------------------------------------------------------
(* Specification of _extract_balance_summary: the rows of page 1 arrive one  *)
(* by one (the loop of line 108), then lines 133-137 run.                    *)

Cur7   == <<"$", "7", ".", "0", "0">>
Cur9CR == <<"$", "9", ".", "0", "0", "C", "R">>
Cur0   == <<"$", "0", ".", "0", "0">>
Minus7 == <<"-", "$", "7", ".", "0", "0">>
CurBad == <<"x", "$", "7", ".", "0", "0">>

\* rows around the one-word label "Purchases": the label with up to
\* MaxRowCur currency words on either side of it, and a row without it
FreeTexts == {<<"Purchases">>, Cur7, Cur9CR}
FreeRows ==
    {RowOf(t) : t \in
        {u \in UNION {[1..n -> FreeTexts] : n \in 1..(MaxRowCur + 1)} :
            Cardinality({i \in DOMAIN u : u[i] = <<"Purchases">>}) = 1}}
    \cup {RowOf(<<Cur7>>)}

\* rows of the other labels, which the page splits into several words
LabelRows ==
    { RowOf(<< <<"Previous">>, <<"Balance">>, Cur9CR >>),
      RowOf(<< Cur7, <<"Previous">>, <<"Balance">> >>),
      RowOf(<< <<"Other">>, <<"Credits">>, Cur0,
               <<"Available">>, <<"Credit">>, Cur7 >>),
      RowOf(<< <<"Fees">>, <<"Charged">>, Cur0,
               <<"Interest">>, <<"Charged">>, Cur0 >>),
      RowOf(<< <<"New">>, <<"Balance">>, Minus7 >>),
      RowOf(<< <<"Minimum">>, <<"Payment">>, <<"Due">>, Cur0 >>),
      RowOf(<< <<"Available">>, <<"Credit">>, CurBad >>) }

SumRows == FreeRows \cup LabelRows

\* RowFacts of every row of SumRows, as an explicit function evaluated once
SumRowFacts == [r \in SumRows |-> RowFacts(r)] @@ <<>>

InitSummary ==
    /\ sum_row = <<>>
    /\ values = NoValues
    /\ summary_out = Pending
    /\ label_seen = {}
    /\ AmountIdle /\ ValidateIdle /\ TxnIdle /\ ParseIdle

\* one iteration of `for row in rows`
SummaryRow(r) ==
    /\ summary_out = Pending
    /\ sum_row' = r
    /\ LET facts == SumRowFacts[r]
           res   == ScanLabels(values, facts, 1)
       IN  /\ values' = res.values
           /\ summary_out' = IF res.raised THEN DataIntegrityError ELSE Pending
           /\ label_seen' = label_seen \cup
                  {label_map[i].key : i \in {j \in 1..Len(label_map) : facts[j].has}}
    /\ UNCHANGED <<amountVars, validateVars, txnVars, parseVars>>

\* the rows are exhausted
SummaryFinish ==
    /\ summary_out = Pending
    /\ summary_out' = SummaryResult(values)
    /\ UNCHANGED <<sum_row, values, label_seen, amountVars, validateVars, txnVars,
                   parseVars>>

NextSummary == (\E r \in SumRows : SummaryRow(r)) \/ SummaryFinish

SpecSummary == InitSummary /\ [][NextSummary]_vars

-----------------------------------------------------------------------------
(* Specification of _extract_transactions: the rows of the pages arrive one  *)
(* by one (the loops of lines 156 and 158); the scan ends at line 169 or,    *)
(* the pages exhausted, at line 212.                                         *)

\* words placed from x0 = x on, 35 apart
Placed(texts, x) == [i \in 1..Len(texts) |-> Word(texts[i], x + 35 * (i - 1), 300)]

\* a row with the given words in the five column bands (x0 of lines 14-18)
BandRow(a, p, r, d, m) ==
    Placed(a, 82) \o Placed(p, 138) \o Placed(r, 198) \o Placed(d, 265)
        \o Placed(m, 530)

\* a row at the left margin, outside every band
MarginRow(texts) == Placed(texts, 40)

Dec31 == <<"Dec", "3", "1">>
Jan02 == <<"Jan", "0", "2">>
Feb30 == <<"Feb", "3", "0">>
Ref1  == <<"39053938">>
Acme  == << <<"ACME">> >>
AcmeStore == << <<"ACME">>, <<"STORE">> >>
None == <<>>

CompleteRows ==
    { BandRow(<<Dec31>>, <<Jan02>>, <<Ref1>>, Acme, <<Cur7>>),
      BandRow(<<Jan02>>, <<Jan02>>, <<Ref1>>, Acme, <<Cur9CR>>) }

PartialRows ==
    { BandRow(<<Dec31>>, None, <<Ref1>>, Acme, <<Cur7>>),
      BandRow(<<Dec31>>, <<Jan02>>, None, Acme, <<Cur7>>),
      BandRow(<<Dec31>>, <<Jan02>>, <<Ref1>>, Acme, None) }

ContinuationRows ==
    { BandRow(None, None, None, AcmeStore, None),
      BandRow(None, None, <<Ref1>>, AcmeStore, <<Cur7>>),
      BandRow(<< <<"Jan", "2">> >>, None, None, AcmeStore, None) }

OtherRows ==
    { BandRow(None, None, None, None, <<Cur7>>),
      MarginRow(<< <<"Transactions">> >>),
      MarginRow(<< <<"Transactions">>, <<"(continued)">> >>) }

SectionEndRows ==
    { MarginRow(<< <<"Fees">> >>),
      BandRow(<<Dec31>>, <<Jan02>>, <<Ref1>>, << <<"Late">>, <<"Fees">> >>, <<Cur7>>),
      BandRow(None, None, None,
              << <<"TOTAL">>, <<"FEES">>, <<"FOR">>, <<"THIS">>, <<"PERIOD">> >>,
              <<Cur7>>) }

HeaderRow ==
    BandRow(<< <<"Activity">>, <<"Date">> >>, << <<"Post">>, <<"Date">> >>,
            << <<"Reference">>, <<"#">> >>, << <<"Description">> >>,
            << <<"Amount">> >>)

SkippedRows ==
    { HeaderRow,
      BandRow(None, None, None,
              << <<"Card">>, <<"Number">>, <<"Ending">>, <<"in">>, <<"5679">> >>, None),
      BandRow(<<Dec31>>, <<Jan02>>, <<Ref1>>,
              << <<"Card">>, <<"Number">>, <<"Ending">> >>, <<Cur7>>) }

RaisingRows ==
    { BandRow(<<Feb30>>, <<Jan02>>, <<Ref1>>, Acme, <<Cur7>>),
      BandRow(<<Dec31>>, << <<"junk">> >>, <<Ref1>>, Acme, <<Cur7>>),
      BandRow(<<Dec31>>, <<Jan02>>, <<Ref1>>, Acme, << <<"N", "/", "A">> >>) }

TxnRows ==
    CompleteRows \cup PartialRows \cup ContinuationRows \cup OtherRows
        \cup SectionEndRows \cup SkippedRows \cup RaisingRows

\* TxnRowFacts of every row of TxnRows, as an explicit function evaluated once
TxnFactsOf == [r \in TxnRows |-> TxnRowFacts(r)] @@ <<>>

Returned(txns) == [kind |-> "list", value |-> txns]

InitTxn ==
    /\ year = 2024
    /\ billing_end_month \in {8, 12}
    /\ page = 1
    /\ txn_row = <<>>
    /\ in_transactions = FALSE
    /\ transactions = <<>>
    /\ txn_out = Pending
    /\ amended = <<>>
    /\ AmountIdle /\ ValidateIdle /\ SummaryIdle /\ ParseIdle

\* one iteration of `for row in rows`
TxnRow(r) ==
    /\ txn_out = Pending
    /\ LET res == ScanTxnRow(in_transactions, transactions, TxnFactsOf[r],
                             year, billing_end_month)
           n   == Len(transactions)
       IN  /\ Len(res.transactions) <= MaxTxns
           /\ in_transactions' = res.in_transactions
           /\ transactions' = res.transactions
           /\ txn_out' = CASE res.out = "continue" -> Pending
                           [] res.out = "return" -> Returned(res.transactions)
                           [] OTHER -> [kind |-> res.out]
           /\ IF Len(res.transactions) > n THEN amended' = Append(amended, 0)
              ELSE IF res.transactions # transactions
                   THEN /\ amended[n] < MaxAmend
                        /\ amended' = [amended EXCEPT ![n] = @ + 1]
              ELSE amended' = amended
    /\ txn_row' = r
    /\ UNCHANGED <<year, billing_end_month, page>>
    /\ UNCHANGED <<amountVars, validateVars, summaryVars, parseVars>>

\* `for page in pages`: the rows of the page are exhausted, another follows
TxnNextPage ==
    /\ txn_out = Pending
    /\ page < MaxPages
    /\ page' = page + 1
    /\ UNCHANGED <<year, billing_end_month, txn_row, in_transactions,
                   transactions, txn_out, amended>>
    /\ UNCHANGED <<amountVars, validateVars, summaryVars, parseVars>>

\* line 212: the pages are exhausted
TxnEnd ==
    /\ txn_out = Pending
    /\ txn_out' = Returned(transactions)
    /\ UNCHANGED <<year, billing_end_month, page, txn_row, in_transactions,
                   transactions, amended>>
    /\ UNCHANGED <<amountVars, validateVars, summaryVars, parseVars>>

NextTxn == (\E r \in TxnRows : TxnRow(r)) \/ TxnNextPage \/ TxnEnd

SpecTxn == InitTxn /\ [][NextTxn]_vars

-----------------------------------------------------------------------------
(* Specification of TDStatementParser.parse over a family of statements:    *)
(* page 1 with or without each of its parts, then a page of transactions.   *)

Year2024 == <<"2", "0", "2", "4">>

CardholderRow == RowAt(<< <<"JOHN">>, <<"DOE">> >>, 420, 20)
EntityRow == RowAt(<< <<"ACME">>, <<"LLC">> >>, 420, 40)
AccountRow == RowAt(<< <<"Account">>, <<"Number">>, <<"Ending">>, <<"in", ":">>,
                       <<"5", "6", "7", "9">> >>, 50, 90)

PeriodTexts(m1, m2) ==
    << <<"Statement">>, <<"Period", ":">>, <<m1>>, <<"4", ",">>, Year2024,
       <<"-">>, <<m2>>, <<"3", ",">>, Year2024 >>

\* the rows that may carry the billing period: none, one in the header
\* area, one with abbreviated months, one below the header area
BillingRows ==
    { <<>>,
      <<RowAt(PeriodTexts("July", "August"), 50, 60)>>,
      <<RowAt(PeriodTexts("November", "December"), 50, 60)>>,
      <<RowAt(PeriodTexts("Jul", "Aug"), 50, 60)>>,
      <<RowAt(PeriodTexts("July", "August"), 50, 80)>> }

\* the row of field i of label_map with the amount token t, none for <<>>
FieldRows(i, t) ==
    IF t = <<>> THEN <<>>
    ELSE LET label == label_map[i].label
         IN  <<RowAt([j \in 1..Len(label) |-> <<label[j]>>] \o <<t>>, 50, 100 + 10 * i)>>

FieldTokens ==
    << {Cur0, Cur7, Cur9CR}, {<<>>, Cur0, Cur7}, {Cur0, Cur7},
       {Cur0}, {Cur0}, {Cur0, Cur7, Minus7}, {Cur7, CurBad}, {Cur0} >>

SummaryRowsSets ==
    {Concat([i \in 1..Len(label_map) |-> FieldRows(i, f[i])]) :
        f \in {g \in [1..Len(label_map) -> {<<>>, Cur0, Cur7, Cur9CR, Minus7, CurBad}] :
                  \A i \in 1..Len(label_map) : g[i] \in FieldTokens[i]}}

PointsRows ==
    { <<>>,
      <<RowAt(<< <<"New">>, <<"Points">>, <<"Balance">>,
                 <<"6", ",", "0", "5", "0">> >>, 50, 200)>> }

TitleRow == MarginRow(<< <<"Transactions">> >>)

TransactionPages ==
    { <<>>,
      << <<TitleRow, HeaderRow,
           BandRow(<<Dec31>>, <<Jan02>>, <<Ref1>>, Acme, <<Cur7>>),
           BandRow(None, None, None, AcmeStore, None),
           MarginRow(<< <<"Fees">> >>)>> >>,
      << <<TitleRow, BandRow(<<Feb30>>, <<Jan02>>, <<Ref1>>, Acme, <<Cur7>>)>> >>,
      << <<TitleRow,
           BandRow(<<Dec31>>, <<Jan02>>, <<Ref1>>, Acme, << <<"N", "/", "A">> >>)>> >> }

Documents ==
    {<<<<CardholderRow, EntityRow>> \o b \o <<AccountRow>> \o s \o p>> \o t :
        b \in BillingRows, s \in SummaryRowsSets, p \in PointsRows,
        t \in TransactionPages}

InitParse ==
    /\ pdf_pages \in Documents
    /\ parse_out = Pending
    /\ AmountIdle /\ ValidateIdle /\ SummaryIdle /\ TxnIdle

Parse ==
    /\ parse_out = Pending
    /\ parse_out' = parse(pdf_pages)
    /\ UNCHANGED <<pdf_pages, amountVars, validateVars, summaryVars, txnVars>>

SpecParse == InitParse /\ [][Parse]_vars

-----------------------------------------------------------------------------
(* Claims *)

\* the value of a Decimal of scale <= 2, in hundredths
Hundredths(a) == a.coef * Pow10(2 - a.scale)

EquationHolds(s) ==
    Hundredths(s.previous_balance) + Hundredths(s.purchases)
        - Hundredths(s.credits) + Hundredths(s.fees) + Hundredths(s.interest)
    = Hundredths(s.new_balance)

\* C1: _validate_balance returns normally if and only if previous_balance +
\* purchases - credits + fees + interest equals new_balance exactly, and
\* raises BalanceMismatchError in every other case.
C1_ValidateIffEquation ==
    validate_out # Pending =>
        /\ validate_out \in {ReturnsNone, BalanceMismatchError}
        /\ (validate_out = ReturnsNone) <=> EquationHolds(summary)

\* a summary that is off by exactly one cent is rejected
C1_Witness ==
    /\ validate_out = BalanceMismatchError
    /\ Hundredths(Calculated(summary)) = Hundredths(summary.new_balance) + 1

\* C3 as stated: only the CR marker (not every C and every R) is removed
\* with the signs, "$", "," and whitespace; a cleaned string that is a
\* decimal numeral gives its magnitude, negated exactly when the token
\* carries the marker; anything else raises DataIntegrityError.
RECURSIVE StripMarker(_)
StripMarker(s) ==
    IF Len(s) >= 2 /\ s[1] = "C" /\ s[2] = "R"
    THEN StripMarker(SubSeq(s, 3, Len(s)))
    ELSE IF s = <<>> THEN <<>>
    ELSE <<Head(s)>> \o StripMarker(Tail(s))

ClaimedCleaned(s) ==
    SelectSeq(StripMarker(Upper(s)),
              LAMBDA c : c \notin {"+", "-", "$", ",", " "})

ClaimedAmount(s) ==
    IF ~IsNumeral(ClaimedCleaned(s)) THEN DataIntegrityError
    ELSE IF Contains(Upper(s), <<"C", "R">>)
         THEN DecNeg(DecimalOf(ClaimedCleaned(s)))
         ELSE DecimalOf(ClaimedCleaned(s))

C3_ParseAmountAsClaimed ==
    amount_out # Pending => amount_out = ClaimedAmount(raw)

\* C10, shared: one iteration of the row loop, and what the row holds for
\* a label
SummaryRowStep ==
    /\ summary_out = Pending
    /\ summary_out' \in {Pending, DataIntegrityError}
    /\ <<sum_row, values>>' # <<sum_row, values>>

SummaryReturnStep == summary_out = Pending /\ ~SummaryRowStep

HasLabel(r, l) == Contains(Joined(r), l)

\* the left coordinate of the first word holding the whole label; 0 when the
\* label is spread over several words
LabelLeft(r, l) ==
    IF \E i \in 1..Len(r) : Contains(r[i].text, l)
    THEN LET i == CHOOSE i \in 1..Len(r) :
                    /\ Contains(r[i].text, l)
                    /\ \A j \in 1..(i - 1) : ~Contains(r[j].text, l)
         IN  r[i].x0
    ELSE 0

CurrencyRightOf(r, l) ==
    {j \in 1..Len(r) : r[j].x0 > LabelLeft(r, l) /\ RE_CURRENCY_search(r[j].text)}

IsLeftmostAmount(r, l, v) ==
    \E j \in CurrencyRightOf(r, l) :
        /\ \A k \in CurrencyRightOf(r, l) : r[j].x0 <= r[k].x0
        /\ v = FieldAmount(r[j].text)

SummaryReturnsOnlyWhole ==
    SummaryReturnStep =>
        IF DOMAIN values = Keys
        THEN /\ summary_out'.kind = "BalanceSummary"
             /\ \A k \in Keys : summary_out'[k] = values[k]
        ELSE summary_out' = DataIntegrityError

\* C10 as stated: a BalanceSummary is returned only when all 8 fields have a
\* value, DataIntegrityError is raised otherwise; each field's value comes
\* from the FIRST row whose text contains its label, and is the leftmost
\* currency token to the right of the label token; later rows holding the
\* label never change it.
C10_ValueFromFirstLabelRow ==
    [][ /\ SummaryReturnsOnlyWhole
        /\ SummaryRowStep /\ summary_out' = Pending =>
              \A i \in 1..Len(label_map) :
                 LET k == label_map[i].key
                     l == label_map[i].label
                 IN  IF k \in label_seen
                     THEN /\ (k \in DOMAIN values') = (k \in DOMAIN values)
                          /\ k \in DOMAIN values => values'[k] = values[k]
                     ELSE HasLabel(sum_row', l) =>
                              /\ k \in DOMAIN values'
                              /\ IsLeftmostAmount(sum_row', l, values'[k])
      ]_vars

\* C10 amended: as above, but the value comes from the first row that holds
\* the label AND a currency token to the right of it: a row that holds the
\* label without such a token supplies nothing, and a later row may.
C10_ValueFromFirstRowWithCandidate ==
    [][ /\ SummaryReturnsOnlyWhole
        /\ SummaryRowStep =>
              \A i \in 1..Len(label_map) :
                 LET k == label_map[i].key
                     l == label_map[i].label
                     r == sum_row'
                 IN  IF k \in DOMAIN values
                     THEN k \in DOMAIN values' /\ values'[k] = values[k]
                     ELSE /\ k \in DOMAIN values' =>
                                /\ HasLabel(r, l)
                                /\ IsLeftmostAmount(r, l, values'[k])
                          /\ ( /\ summary_out' = Pending
                               /\ HasLabel(r, l)
                               /\ CurrencyRightOf(r, l) # {} )
                                => k \in DOMAIN values'
      ]_vars

\* all 8 fields found, purchases taken from the token right of the label
\* although a currency token stands left of it
C10_Witness ==
    /\ summary_out.kind = "BalanceSummary"
    /\ sum_row = RowOf(<<Cur7, <<"Purchases">>, Cur9CR>>)
    /\ summary_out.purchases = Dec(-900, 2)
    /\ summary_out.previous_balance = Dec(700, 2)

-----------------------------------------------------------------------------
(* Claims about _extract_transactions *)

\* a step of the row loop; the row it scanned is txn_row'
TxnRowStep ==
    /\ txn_out = Pending
    /\ page' = page
    /\ ~(txn_row' = txn_row /\ txn_out' # Pending)

HasDateToken(r) ==
    \E i \in 1..Len(r) :
        /\ r[i].x0 >= 70 /\ r[i].x0 <= 115
        /\ Len(r[i].text) = 3
        /\ r[i].text[1] \in {MonthAbbr[m] : m \in 1..12}
        /\ r[i].text[2] \in Digits /\ r[i].text[3] \in Digits

DescBand(r) == SelectSeq(r, LAMBDA w : w.x0 >= 255 /\ w.x0 <= 510)
PostBand(r) == SelectSeq(r, LAMBDA w : w.x0 >= 125 /\ w.x0 <= 165)
RefBand(r)  == SelectSeq(r, LAMBDA w : w.x0 >= 185 /\ w.x0 <= 230)
AmtBand(r)  == SelectSeq(r, LAMBDA w : w.x0 >= 515 /\ w.x0 <= 580)

HasEndLabel(r) ==
    \/ Contains(Joined(r), <<"Fees">>)
    \/ Contains(Joined(r), <<"TOTAL", "FEES", "FOR", "THIS", "PERIOD">>)

HasSkipLabel(r) ==
    \/ Contains(Joined(r), <<"Activity", "Date">>)
    \/ Contains(Joined(r), <<"Card", "Number", "Ending">>)

\* the effect C4 describes on the list, for the row r
StitchedOnto(r) ==
    LET n == Len(transactions)
    IN  /\ Len(transactions') = n
        /\ \A i \in 1..(n - 1) : transactions'[i] = transactions[i]
        /\ transactions'[n].activity_date = transactions[n].activity_date
        /\ transactions'[n].post_date = transactions[n].post_date
        /\ transactions'[n].reference_number = transactions[n].reference_number
        /\ transactions'[n].amount = transactions[n].amount
        /\ transactions'[n].description =
              transactions[n].description \o <<" ">> \o JoinSpace(DescBand(r))

DescriptionOnlyRow(r) ==
    /\ TxnRowStep
    /\ in_transactions
    /\ transactions # <<>>
    /\ ~HasDateToken(r)
    /\ DescBand(r) # <<>>

\* C4 as stated: in the section, with a transaction accumulated, every row
\* without an activity-date token and with description-band tokens leaves
\* the list length and all but the last description unchanged and appends
\* " " and its description tokens to the last description.
C4_EveryDescriptionRowStitches ==
    [][DescriptionOnlyRow(txn_row') => StitchedOnto(txn_row')]_vars

\* C4 amended: the same, for the rows that are not a section-end row and
\* not a column-header or card-number row (those are tested first and
\* leave every transaction as it is).
C4_ContinuationRowStitches ==
    [][ DescriptionOnlyRow(txn_row') =>
          IF HasEndLabel(txn_row') \/ HasSkipLabel(txn_row')
          THEN transactions' = transactions
          ELSE StitchedOnto(txn_row') ]_vars

\* a continuation row has been stitched onto the second of two transactions
C4_Witness ==
    /\ Len(transactions) = 2
    /\ txn_row = BandRow(None, None, <<Ref1>>, AcmeStore, <<Cur7>>)
    /\ transactions[2].description = <<"ACME", " ", "ACME", " ", "STORE">>

\* C6 as stated: each of the two dates of a transaction gets the year of
\* its own token: the billing period's end year, plus one exactly when
\* that token's month is January and the period ends in December.
OwnYear(d) ==
    IF d.month = 1 /\ billing_end_month = 12 THEN year + 1 ELSE year

C6_EachDateItsOwnYear ==
    \A i \in 1..Len(transactions) :
        /\ transactions[i].activity_date.year = OwnYear(transactions[i].activity_date)
        /\ transactions[i].post_date.year = OwnYear(transactions[i].post_date)

\* C7: rows before the first row whose stripped text is exactly
\* "Transactions" create and amend nothing; the section, once entered, is
\* never left; a row of the section holding a section-end label ends the
\* scan with exactly the list accumulated so far, and nothing changes the
\* list after that.
C7_SectionBoundaries ==
    [][ /\ in_transactions => in_transactions'
        /\ ~in_transactions =>
              /\ transactions = <<>> /\ transactions' = <<>>
              /\ txn_out' \in {Pending, Returned(<<>>)}
              /\ in_transactions' <=>
                    (TxnRowStep /\ Strip(Joined(txn_row')) = <<"Transactions">>)
        /\ (TxnRowStep /\ in_transactions /\ HasEndLabel(txn_row')) =>
              /\ txn_out' = Returned(transactions)
              /\ transactions' = transactions
        /\ txn_out # Pending => transactions' = transactions /\ txn_out' = txn_out
      ]_vars

\* the scan ended at a section-end row on a later page, transactions kept
C7_Witness ==
    /\ page = MaxPages
    /\ txn_row = MarginRow(<< <<"Fees">> >>)
    /\ txn_out = Returned(transactions)
    /\ Len(transactions) >= 1

\* C8 as stated: no transaction of the list is replaced by an amended copy
\* more than once.
C8_AmendedAtMostOnce ==
    \A i \in 1..Len(amended) : amended[i] <= 1

\* C8 amended: a transaction is replaced only while it is the last of the
\* list, once for each continuation row scanned then (any number of
\* times); once another transaction follows it, it is never replaced.
C8_AmendedOnlyWhileLast ==
    [][ LET n == Len(transactions)
        IN  /\ Len(transactions') >= n
            /\ \A i \in 1..(n - 1) :
                  transactions'[i] = transactions[i] /\ amended'[i] = amended[i]
            /\ n >= 1 =>
                  /\ amended'[n] \in {amended[n], amended[n] + 1}
                  /\ (amended'[n] = amended[n]) <=> (transactions'[n] = transactions[n])
      ]_vars

\* the first of two transactions was replaced twice before the second came
C8_Witness ==
    /\ Len(transactions) = 2
    /\ amended[1] = 2
    /\ amended[2] = 1

\* the transaction C9 expects of a complete row r
BuiltFrom(t, r) ==
    /\ t.reference_number = RefBand(r)[1].text
    /\ t.description = JoinSpace(DescBand(r))
    /\ t.amount = _parse_amount(AmtBand(r)[1].text)

IsComplete(r) == PostBand(r) # <<>> /\ RefBand(r) # <<>> /\ AmtBand(r) # <<>>

InSectionRow(r) == TxnRowStep /\ in_transactions /\ ~HasEndLabel(r)

AppendsOne(r) ==
    /\ Len(transactions') = Len(transactions) + 1
    /\ SubSeq(transactions', 1, Len(transactions)) = transactions
    /\ BuiltFrom(transactions'[Len(transactions')], r)

\* C9 as stated: a row of the section with a date token and an empty
\* post-date, reference or amount band raises nothing and leaves the list
\* as it is; every row of the section (before its end) with a date token
\* and all three bands filled adds one transaction at the end, and no
\* other row adds one.
C9_OnePerCompleteRow ==
    [][ InSectionRow(txn_row') =>
          IF HasDateToken(txn_row') /\ IsComplete(txn_row')
          THEN txn_out' = Pending => AppendsOne(txn_row')
          ELSE /\ Len(transactions') = Len(transactions)
               /\ HasDateToken(txn_row') =>
                     txn_out' = Pending /\ transactions' = transactions ]_vars

\* C9 amended: the same, except that a row holding "ActivityDate" or
\* "CardNumberEnding" is skipped before its bands are looked at and adds
\* nothing, complete or not.
C9_OnePerCompleteUnskippedRow ==
    [][ InSectionRow(txn_row') =>
          IF HasDateToken(txn_row') /\ IsComplete(txn_row') /\ ~HasSkipLabel(txn_row')
          THEN txn_out' = Pending => AppendsOne(txn_row')
          ELSE /\ Len(transactions') = Len(transactions)
               /\ HasDateToken(txn_row') =>
                     txn_out' = Pending /\ transactions' = transactions ]_vars

\* a row with a date token and no amount was dropped after two transactions
C9_Witness ==
    /\ Len(transactions) = 2
    /\ transactions[1] # transactions[2]
    /\ txn_row = BandRow(<<Dec31>>, <<Jan02>>, <<Ref1>>, Acme, None)
    /\ txn_out = Pending

-----------------------------------------------------------------------------
(* TDStatementParser.parse *)

Extracted == _extract_balance_summary(pdf_pages[1])

ExtractedMismatch == Extracted # DataIntegrityError /\ ~EquationHolds(Extracted)

\* the steps of lines 237-243 all succeed
EarlierStepsSucceed ==
    LET header == _extract_header(pdf_pages[1])
    IN  /\ _extract_points(pdf_pages[1]) # DataIntegrityError
        /\ "billing" \in DOMAIN header
        /\ LET period == _parse_billing_period(header["billing"][1],
                                                header["billing"][2])
           IN  /\ period # ValueError
               /\ _extract_transactions(pdf_pages, period.value[2].year,
                                         period.value[2].month).kind = "list"

\* C2 as stated: every Statement returned by parse has a balance_summary
\* satisfying the equation, and whenever the extracted summary violates the
\* equation parse raises BalanceMismatchError, on every path.
C2_MismatchAlwaysBalanceMismatch ==
    parse_out # Pending =>
        /\ parse_out.kind = "Statement" => EquationHolds(parse_out.balance_summary)
        /\ ExtractedMismatch => parse_out = BalanceMismatchError

\* C2: every Statement returned by parse has a balance_summary satisfying
\* previous_balance + purchases - credits + fees + interest = new_balance;
\* when the extracted summary violates the equation parse returns no
\* Statement, and raises BalanceMismatchError if points extraction, the
\* billing period and transaction extraction (which all run before the
\* validation) succeed; otherwise the exception of the step that failed
\* is what parse raises.
C2_MismatchNeverReturned ==
    parse_out # Pending =>
        LET extracted == Extracted
            mismatch  == extracted # DataIntegrityError /\ ~EquationHolds(extracted)
            succeed   == EarlierStepsSucceed
        IN  /\ parse_out.kind = "Statement" =>
                  /\ parse_out.balance_summary = extracted
                  /\ EquationHolds(parse_out.balance_summary)
            /\ mismatch =>
                  /\ parse_out.kind # "Statement"
                  /\ parse_out = BalanceMismatchError <=> succeed

\* a statement whose parts are all found and whose summary is off is
\* rejected by the validation
C2_Witness ==
    /\ parse_out = BalanceMismatchError
    /\ ExtractedMismatch
    /\ EarlierStepsSucceed

\* C5 as stated: when no billing period is found on page 1 and the balance
\* summary and the points are extracted, parse raises DataIntegrityError.
C5_MissingBillingIsDataIntegrity ==
    ( /\ parse_out # Pending
      /\ "billing" \notin DOMAIN _extract_header(pdf_pages[1])
      /\ Extracted # DataIntegrityError
      /\ _extract_points(pdf_pages[1]) # DataIntegrityError )
    => parse_out = DataIntegrityError

====
